---- MODULE Spec2Model ----
(***************************************************************************)
(* A model of the liver-segmentation pipeline: the training loop of        *)
(* train.py (epochs, validation every fifth epoch, best-checkpoint         *)
(* selection), the train/held-out partition of train.py and preprocess.py, *)
(* and the prediction file naming of inference.py.                         *)
(*                                                                         *)
(* Dice scores are counted in tenths: 5 stands for 0.5, 10 for 1.0.        *)
(***************************************************************************)
EXTENDS Integers, Sequences, FiniteSets, TLC

VARIABLES
    \* ---- train.py, train_model ----
    pc,               \* position in train_model
    num_epochs,       \* argument num_epochs
    epoch,            \* loop variable of "for epoch in range(num_epochs)"
    step,             \* batches consumed in the current epoch
    val_i,            \* validation samples consumed in the current pass
    mode,             \* model.training: "train" or "eval"
    grad_enabled,     \* FALSE inside "with torch.no_grad()"
    params,           \* version of the learnable parameters (updates applied)
    opt_steps,        \* optimizer state: optimizer.step() calls made
    grads,            \* gradient buffers: loss.backward() calls made
    dice_metric,      \* buffer of DiceMetric: the samples scored since reset
    mean_iou_metric,  \* buffer of MeanIoU: the samples scored since reset
    best_dice_score,
    best_dice_epoch,
    dice_values,      \* list dice_values
    outputs,          \* the files of valohai.outputs(): name -> content
    n_saves,          \* torch.save calls made
    \* ---- get_data_loaders / preprocess_train_val ----
    dir_images,       \* names in the image directory
    dir_labels,       \* names in the label directory
    shuffle42,        \* permutations RandomState(42) has produced, by length
    split_runs,       \* the partitioning runs made so far
    \* ---- inference.py, run_inference ----
    ipc,              \* position in run_inference
    input_name,       \* basename of input_image_path
    pred_dir,         \* the files SaveImaged wrote under output_path
    pred_name,        \* the name run_inference derives
    loaded            \* outcome of nib.load(pred_path)

trainVars == <<pc, num_epochs, epoch, step, val_i, mode, grad_enabled, params,
               opt_steps, grads, dice_metric, mean_iou_metric, best_dice_score,
               best_dice_epoch,
               dice_values, outputs, n_saves>>
splitVars == <<dir_images, dir_labels, shuffle42, split_runs>>
inferVars == <<ipc, input_name, pred_dir, pred_name, loaded>>
vars == <<trainVars, splitVars, inferVars>>

\* ------------------------------------------------------------------ bounds
MaxEpochs == 25      \* num_epochs ranges over 1..MaxEpochs
MaxFiles == 3        \* the volumes a directory may hold are named 1..MaxFiles
MaxExts == 4         \* an input file name has up to MaxExts extensions
NumBatches == 2      \* len(train_loader)
NumVal == 2          \* len(val_loader)

\* The Dice values a validation pass may aggregate to, in tenths.
DiceValues == {0, 5, 6, 7, 8, 9, 10}

\* ------------------------------------------------------------ train_model
ValInterval == 5

RECURSIVE MinOf(_)
MinOf(S) ==
    LET x == CHOOSE y \in S : TRUE
    IN  IF S = {x} THEN x
        ELSE LET m == MinOf(S \ {x}) IN IF x < m THEN x ELSE m

best_dice_score_lowest_valid == MinOf(DiceValues)

\* best_dice_score = -1
best_dice_score_init == -1

best_dice_epoch_init == -1

ModelPath == "model.pth"

MetadataPath == "model.pth.metadata.json"

NoFiles == [n \in {} |-> [kind |-> "", params |-> -1, alias |-> ""]]

StateDictFile(p) == [kind |-> "state_dict", params |-> p, alias |-> ""]

MetadataFile == [kind |-> "json", params |-> -1, alias |-> "latest-model"]

TruncatedFile == [kind |-> "truncated", params |-> -1, alias |-> ""]

\* open(path, "w") and write: the file of that name is replaced.
WriteFile(files, name, content) ==
    [n \in DOMAIN files \cup {name} |-> IF n = name THEN content ELSE files[n]]

ValidationDueOffByOne(e) == e % ValInterval = 0

\* if (epoch + 1) % 5 == 0
ValidationDue(e) == (e + 1) % ValInterval = 0

MetricNotReset(buffer) == buffer

\* dice_metric.reset(), mean_iou_metric.reset(): the buffer is emptied
MetricReset(buffer) == <<>>

IsNewBestOrEqual(d, best) == d >= best

IsNewBestAlways(d, best) == TRUE

\* if dice_score > best_dice_score
IsNewBest(d, best) == d > best

InitTrain ==
    /\ pc = "epoch"
    /\ num_epochs \in 1..MaxEpochs
    /\ epoch = 0
    /\ step = 0
    /\ val_i = 0
    /\ mode \in {"train", "eval"}
    /\ grad_enabled = TRUE
    /\ params = 0
    /\ opt_steps = 0
    /\ grads = 0
    /\ dice_metric = <<>>
    /\ mean_iou_metric = <<>>
    /\ best_dice_score = best_dice_score_init
    /\ best_dice_epoch = best_dice_epoch_init
    /\ dice_values = <<>>
    /\ outputs = NoFiles
    /\ n_saves = 0

EpochBeginWithoutTrainMode ==
    /\ pc = "epoch"
    /\ epoch < num_epochs
    /\ step' = 0
    /\ pc' = "batch"
    /\ UNCHANGED <<num_epochs, epoch, val_i, mode, grad_enabled, params,
                   opt_steps, grads, dice_metric, mean_iou_metric,
                   best_dice_score,
                   best_dice_epoch, dice_values, outputs, n_saves>>
    /\ UNCHANGED <<splitVars, inferVars>>

\* for epoch in range(num_epochs): model.train(); epoch_loss = 0; step = 0
EpochBegin ==
    /\ pc = "epoch"
    /\ epoch < num_epochs
    /\ mode' = "train"
    /\ step' = 0
    /\ pc' = "batch"
    /\ UNCHANGED <<num_epochs, epoch, val_i, grad_enabled, params, opt_steps,
                   grads, dice_metric, mean_iou_metric, best_dice_score,
                   best_dice_epoch,
                   dice_values, outputs, n_saves>>
    /\ UNCHANGED <<splitVars, inferVars>>

\* one batch: zero_grad, forward, loss, backward, optimizer.step
TrainBatch ==
    /\ pc = "batch"
    /\ step < NumBatches
    /\ step' = step + 1
    /\ grads' = grads + 1
    /\ opt_steps' = opt_steps + 1
    /\ params' = params + 1
    /\ UNCHANGED <<pc, num_epochs, epoch, val_i, mode, grad_enabled,
                   dice_metric, mean_iou_metric, best_dice_score,
                   best_dice_epoch, dice_values,
                   outputs, n_saves>>
    /\ UNCHANGED <<splitVars, inferVars>>

\* the epoch's batches are consumed: report the loss, then validate or go on
EpochEnd ==
    /\ pc = "batch"
    /\ step = NumBatches
    /\ IF ValidationDue(epoch)
          THEN /\ mode' = "eval"
               /\ grad_enabled' = FALSE
               /\ val_i' = 0
               /\ pc' = "val"
               /\ UNCHANGED epoch
          ELSE /\ epoch' = epoch + 1
               /\ pc' = "epoch"
               /\ UNCHANGED <<mode, grad_enabled, val_i>>
    /\ UNCHANGED <<num_epochs, step, params, opt_steps, grads,
                   dice_metric, mean_iou_metric,
                   best_dice_score, best_dice_epoch, dice_values, outputs,
                   n_saves>>
    /\ UNCHANGED <<splitVars, inferVars>>

\* one validation sample: sliding-window inference, post transforms, the
\* metrics take the sample into their buffers
ValSample ==
    /\ pc = "val"
    /\ val_i < NumVal
    /\ val_i' = val_i + 1
    /\ dice_metric' = Append(dice_metric, <<epoch + 1, val_i + 1>>)
    /\ mean_iou_metric' = Append(mean_iou_metric, <<epoch + 1, val_i + 1>>)
    /\ UNCHANGED <<pc, num_epochs, epoch, step, mode, grad_enabled, params,
                   opt_steps, grads, best_dice_score, best_dice_epoch,
                   dice_values, outputs, n_saves>>
    /\ UNCHANGED <<splitVars, inferVars>>

\* the validation loop is over: aggregate, reset, compare with the best
Aggregate ==
    /\ pc = "val"
    /\ val_i = NumVal
    /\ \E dice_score \in DiceValues :
          /\ dice_values' = Append(dice_values, dice_score)
          /\ IF IsNewBest(dice_score, best_dice_score)
                THEN /\ best_dice_score' = dice_score
                     /\ best_dice_epoch' = epoch + 1
                     /\ pc' = "save"
                     /\ UNCHANGED <<epoch, grad_enabled>>
                ELSE /\ epoch' = epoch + 1
                     /\ grad_enabled' = TRUE
                     /\ pc' = "epoch"
                     /\ UNCHANGED <<best_dice_score, best_dice_epoch>>
    /\ dice_metric' = MetricReset(dice_metric)
    /\ mean_iou_metric' = MetricReset(mean_iou_metric)
    /\ UNCHANGED <<num_epochs, step, val_i, mode, params, opt_steps, grads,
                   outputs, n_saves>>
    /\ UNCHANGED <<splitVars, inferVars>>

SaveModelWritesSidecarFirst ==
    /\ pc = "save"
    /\ outputs' = WriteFile(outputs, MetadataPath, MetadataFile)
    /\ n_saves' = n_saves + 1
    /\ pc' = "meta"
    /\ UNCHANGED <<num_epochs, epoch, step, val_i, mode, grad_enabled, params,
                   opt_steps, grads, dice_metric, mean_iou_metric,
                   best_dice_score,
                   best_dice_epoch, dice_values>>
    /\ UNCHANGED <<splitVars, inferVars>>

\* torch.save(model.state_dict(), model_output_path)
SaveModel ==
    /\ pc = "save"
    /\ outputs' = WriteFile(outputs, ModelPath, StateDictFile(params))
    /\ n_saves' = n_saves + 1
    /\ pc' = "meta"
    /\ UNCHANGED <<num_epochs, epoch, step, val_i, mode, grad_enabled, params,
                   opt_steps, grads, dice_metric, mean_iou_metric,
                   best_dice_score,
                   best_dice_epoch, dice_values>>
    /\ UNCHANGED <<splitVars, inferVars>>

\* with open(f"{model_output_path}.metadata.json", "w") as f: json.dump(...)
SaveMetadata ==
    /\ pc = "meta"
    /\ outputs' = WriteFile(outputs, MetadataPath, MetadataFile)
    /\ epoch' = epoch + 1
    /\ grad_enabled' = TRUE
    /\ pc' = "epoch"
    /\ UNCHANGED <<num_epochs, step, val_i, mode, params, opt_steps, grads,
                   dice_metric, mean_iou_metric, best_dice_score,
                   best_dice_epoch, dice_values,
                   n_saves>>
    /\ UNCHANGED <<splitVars, inferVars>>

\* the loop is over: print the best score and return the model
Finish ==
    /\ pc = "epoch"
    /\ epoch = num_epochs
    /\ pc' = "done"
    /\ UNCHANGED <<num_epochs, epoch, step, val_i, mode, grad_enabled, params,
                   opt_steps, grads, dice_metric, mean_iou_metric,
                   best_dice_score,
                   best_dice_epoch, dice_values, outputs, n_saves>>
    /\ UNCHANGED <<splitVars, inferVars>>

\* Nothing in train_model catches an exception: one raised while a
\* validation sample is processed ends the run where it stands.
FailValidation ==
    /\ pc = "val"
    /\ val_i < NumVal
    /\ pc' = "aborted_val"
    /\ UNCHANGED <<num_epochs, epoch, step, val_i, mode, grad_enabled, params,
                   opt_steps, grads, dice_metric, mean_iou_metric,
                   best_dice_score,
                   best_dice_epoch, dice_values, outputs, n_saves>>
    /\ UNCHANGED <<splitVars, inferVars>>

\* torch.save raises: before the file is opened, or after it was opened for
\* writing (and so truncated) with the state only partly written
FailSaveModel ==
    /\ pc = "save"
    /\ outputs' \in {outputs, WriteFile(outputs, ModelPath, TruncatedFile)}
    /\ pc' = "aborted_save"
    /\ UNCHANGED <<num_epochs, epoch, step, val_i, mode, grad_enabled, params,
                   opt_steps, grads, dice_metric, mean_iou_metric,
                   best_dice_score,
                   best_dice_epoch, dice_values, n_saves>>
    /\ UNCHANGED <<splitVars, inferVars>>

\* open() or json.dump raises while the sidecar is written
FailSaveMetadata ==
    /\ pc = "meta"
    /\ outputs' \in {outputs, WriteFile(outputs, MetadataPath, TruncatedFile)}
    /\ pc' = "aborted_meta"
    /\ UNCHANGED <<num_epochs, epoch, step, val_i, mode, grad_enabled, params,
                   opt_steps, grads, dice_metric, mean_iou_metric,
                   best_dice_score,
                   best_dice_epoch, dice_values, n_saves>>
    /\ UNCHANGED <<splitVars, inferVars>>

NextTrain ==
    \/ EpochBegin
    \/ TrainBatch
    \/ EpochEnd
    \/ ValSample
    \/ Aggregate
    \/ SaveModel
    \/ SaveMetadata
    \/ Finish
    \/ FailValidation
    \/ FailSaveModel
    \/ FailSaveMetadata


\* ------------------------------- get_data_loaders, preprocess_train_val
\* File names are numbered in their lexicographic order; every one of them
\* matches the pattern '*.nii*' of preprocess_train_val.
FileNames == 1..MaxFiles

Range(s) == {s[i] : i \in 1..Len(s)}

\* the orders in which os.listdir or glob may enumerate the directory dir
Listings(dir) ==
    {s \in [1..Cardinality(dir) -> dir] : \A i, j \in 1..Cardinality(dir) :
                                             s[i] = s[j] => i = j}

RECURSIVE InsertSorted(_, _)
InsertSorted(x, s) ==
    IF s = <<>> THEN <<x>>
    ELSE IF x <= Head(s) THEN <<x>> \o s
    ELSE <<Head(s)>> \o InsertSorted(x, Tail(s))

Unsorted(s) == s

\* sorted(...)
RECURSIVE Sorted(_)
Sorted(s) == IF s = <<>> THEN <<>> ELSE InsertSorted(Head(s), Sorted(Tail(s)))

IsSorted(s) == \A i \in 1..(Len(s) - 1) : s[i] <= s[i + 1]

MinLen(a, b) == IF Len(a) <= Len(b) THEN Len(a) ELSE Len(b)

ZipReversedLabels(images, labels) ==
    [i \in 1..MinLen(images, labels) |->
        [image |-> images[i], label |-> labels[Len(labels) + 1 - i]]]

\* [{"image": img, "label": lbl} for img, lbl in zip(images, labels)]
Zip(images, labels) ==
    [i \in 1..MinLen(images, labels) |-> [image |-> images[i], label |-> labels[i]]]

\* the held-out fractions, in percent: val_split of get_data_loaders (its
\* default 0.2, and 0.33) and the test_size 0.1 of preprocess_train_val
ValSplits == {20, 33}

PreprocessTestSize == 10

\* ceil(test_size * n_samples)
NumTest(f, n) == (f * n + 99) \div 100

\* train_test_split raises ValueError when a side of the split is empty
SplitFails(f, n) == n = 0 \/ NumTest(f, n) = 0 \/ n - NumTest(f, n) = 0

\* the permutation the generator seeded with 42 gives for n samples: one
\* permutation per n, the same in every run
PermOptions(n) ==
    IF n \in DOMAIN shuffle42 THEN {shuffle42[n]} ELSE Listings(1..n)

Remember(n, p) ==
    [k \in DOMAIN shuffle42 \cup {n} |-> IF k = n THEN p ELSE shuffle42[k]]

\* ShuffleSplit: the first n_test indices of the permutation are held out
TestPart(a, p, f) == [i \in 1..NumTest(f, Len(a)) |-> a[p[i]]]

TrainPart(a, p, f) ==
    [i \in 1..(Len(a) - NumTest(f, Len(a))) |-> a[p[NumTest(f, Len(a)) + i]]]

NoRuns == <<>>

NoShuffles == [n \in {} |-> <<>>]

Failed(site, f, wasSorted) ==
    [site |-> site, f |-> f, listed_sorted |-> wasSorted, status |-> "error",
     train |-> <<>>, heldout |-> <<>>]

InitSplit ==
    /\ dir_images \in SUBSET FileNames
    /\ dir_labels \in SUBSET FileNames
    /\ shuffle42 = NoShuffles
    /\ split_runs = NoRuns

\* train.py: get_data_loaders(data_dir, labels_dir, batch_size, val_split)
GetDataLoaders ==
    /\ Len(split_runs) < 2
    /\ \E val_split \in ValSplits, li \in Listings(dir_images),
          ll \in Listings(dir_labels) :
          LET images == Sorted(li)
              labels == Sorted(ll)
              data_dicts == Zip(images, labels)
              n == Len(data_dicts)
              wasSorted == IsSorted(li) /\ IsSorted(ll)
          IN  IF SplitFails(val_split, n)
                 THEN /\ split_runs' = Append(split_runs,
                              Failed("train", val_split, wasSorted))
                      /\ UNCHANGED shuffle42
                 ELSE \E p \in PermOptions(n) :
                      /\ shuffle42' = Remember(n, p)
                      /\ split_runs' = Append(split_runs,
                              [site |-> "train", f |-> val_split,
                               listed_sorted |-> wasSorted, status |-> "ok",
                               train |-> TrainPart(data_dicts, p, val_split),
                               heldout |-> TestPart(data_dicts, p, val_split)])
    /\ UNCHANGED <<dir_images, dir_labels>>
    /\ UNCHANGED <<trainVars, inferVars>>

\* preprocess.py: preprocess_train_val(data_dir, labels_tr, output_dir)
PreprocessTrainVal ==
    /\ Len(split_runs) < 2
    /\ \E li \in Listings(dir_images), ll \in Listings(dir_labels) :
          LET volumes == Sorted(li)
              masks == Sorted(ll)
              n == Len(volumes)
              f == PreprocessTestSize
              wasSorted == IsSorted(li) /\ IsSorted(ll)
          IN  IF \/ volumes = <<>>
                 \/ masks = <<>>
                 \/ Len(volumes) # Len(masks)
                 \/ SplitFails(f, n)
                 THEN /\ split_runs' = Append(split_runs,
                              Failed("preprocess", f, wasSorted))
                      /\ UNCHANGED shuffle42
                 ELSE \E p \in PermOptions(n) :
                      /\ shuffle42' = Remember(n, p)
                      /\ split_runs' = Append(split_runs,
                              [site |-> "preprocess", f |-> f,
                               listed_sorted |-> wasSorted, status |-> "ok",
                               train |-> Zip(TrainPart(volumes, p, f),
                                             TrainPart(masks, p, f)),
                               heldout |-> Zip(TestPart(volumes, p, f),
                                               TestPart(masks, p, f))])
    /\ UNCHANGED <<dir_images, dir_labels>>
    /\ UNCHANGED <<trainVars, inferVars>>

TrainIdle ==
    /\ pc = "idle"
    /\ num_epochs = 0
    /\ epoch = 0
    /\ step = 0
    /\ val_i = 0
    /\ mode = "train"
    /\ grad_enabled = TRUE
    /\ params = 0
    /\ opt_steps = 0
    /\ grads = 0
    /\ dice_metric = <<>>
    /\ mean_iou_metric = <<>>
    /\ best_dice_score = best_dice_score_init
    /\ best_dice_epoch = best_dice_epoch_init
    /\ dice_values = <<>>
    /\ outputs = NoFiles
    /\ n_saves = 0

NextSplit ==
    \/ GetDataLoaders
    \/ PreprocessTrainVal

\* ------------------------------------------------- inference.py, run_inference
\* A file name is the sequence of its pieces: a stem free of dots, then
\* dotted extensions; "_pred" is the postfix piece. "case_01.nii.gz" is
\* <<"case_01", ".nii", ".gz">>.
Stem == "case_01"

Exts == {".nii", ".gz", ".seg"}

RECURSIVE ExtSeqs(_)
ExtSeqs(n) ==
    IF n = 0 THEN {<<>>}
    ELSE LET shorter == ExtSeqs(n - 1)
         IN  shorter \cup {Append(e, x) : e \in shorter, x \in Exts}

InputNames == {<<Stem>> \o e : e \in ExtSeqs(MaxExts)}

\* base_name.endswith(".nii.gz")
EndsWithNiiGz(name) ==
    /\ Len(name) >= 2
    /\ name[Len(name) - 1] = ".nii"
    /\ name[Len(name)] = ".gz"

\* base_name.replace(".nii.gz", "_pred.nii.gz"): every occurrence, left to right
RECURSIVE ReplaceNiiGz(_)
ReplaceNiiGz(name) ==
    IF name = <<>> THEN <<>>
    ELSE IF Len(name) >= 2 /\ name[1] = ".nii" /\ name[2] = ".gz"
         THEN <<"_pred", ".nii", ".gz">> \o ReplaceNiiGz(SubSeq(name, 3, Len(name)))
         ELSE <<name[1]>> \o ReplaceNiiGz(Tail(name))

\* os.path.splitext(name): the name without its last extension, and that
\* extension ("" when the name has none)
SplitextRoot(name) ==
    IF Len(name) >= 2 /\ name[Len(name)] \in Exts
       THEN SubSeq(name, 1, Len(name) - 1) ELSE name

SplitextExt(name) ==
    IF Len(name) >= 2 /\ name[Len(name)] \in Exts THEN name[Len(name)] ELSE ""

\* lines 102-106: the name run_inference derives for the prediction
PredName(base_name) ==
    IF EndsWithNiiGz(base_name)
       THEN ReplaceNiiGz(base_name)
       ELSE SplitextRoot(base_name) \o <<"_pred", ".nii", ".gz">>

\* SaveImaged(output_postfix="pred", separate_folder=False), output_ext
\* ".nii.gz": the last extension goes, a second one too when the last was
\* ".gz", then "_pred" and ".nii.gz" are appended
SavedName(base_name) ==
    LET root == IF SplitextExt(base_name) = ".gz"
                   THEN SplitextRoot(SplitextRoot(base_name))
                   ELSE SplitextRoot(base_name)
    IN  root \o <<"_pred">> \o <<".nii", ".gz">>

InitInfer ==
    /\ ipc = "start"
    /\ input_name \in InputNames
    /\ pred_dir = {}
    /\ pred_name = <<>>
    /\ loaded = "none"

\* post_transforms(data_dict): inversion, argmax, SaveImaged
SavePrediction ==
    /\ ipc = "start"
    /\ pred_dir' = pred_dir \cup {SavedName(input_name)}
    /\ ipc' = "saved"
    /\ UNCHANGED <<input_name, pred_name, loaded>>
    /\ UNCHANGED <<trainVars, splitVars>>

\* base_name, pred_name, pred_path
DerivePredName ==
    /\ ipc = "saved"
    /\ pred_name' = PredName(input_name)
    /\ ipc' = "named"
    /\ UNCHANGED <<input_name, pred_dir, loaded>>
    /\ UNCHANGED <<trainVars, splitVars>>

\* nib.load(pred_path) for the visualization
LoadPrediction ==
    /\ ipc = "named"
    /\ IF pred_name \in pred_dir
          THEN loaded' = "ok" /\ ipc' = "done"
          ELSE loaded' = "FileNotFoundError" /\ ipc' = "failed"
    /\ UNCHANGED <<input_name, pred_dir, pred_name>>
    /\ UNCHANGED <<trainVars, splitVars>>

NextInfer ==
    \/ SavePrediction
    \/ DerivePredName
    \/ LoadPrediction

SplitIdle ==
    /\ dir_images = {}
    /\ dir_labels = {}
    /\ shuffle42 = NoShuffles
    /\ split_runs = NoRuns

InferIdle ==
    /\ ipc = "idle"
    /\ input_name = <<>>
    /\ pred_dir = {}
    /\ pred_name = <<>>
    /\ loaded = "none"

Init == InitTrain /\ SplitIdle /\ InferIdle

Next == NextTrain

Spec == Init /\ [][Next]_vars

InitSplitRuns == TrainIdle /\ InitSplit /\ InferIdle

SpecSplit == InitSplitRuns /\ [][NextSplit]_vars

InitInference == TrainIdle /\ SplitIdle /\ InitInfer

SpecInfer == InitInference /\ [][NextInfer]_vars
\* ---------------------------------------------------------------- claims
\* Helpers over the list of validation scores.
RECURSIVE MaxOf(_)
MaxOf(s) ==
    IF Len(s) = 1 THEN s[1]
    ELSE LET m == MaxOf(SubSeq(s, 1, Len(s) - 1))
         IN  IF s[Len(s)] > m THEN s[Len(s)] ELSE m

FirstIndexOfMax(s) == CHOOSE i \in 1..Len(s) :
    /\ s[i] = MaxOf(s)
    /\ \A j \in 1..(i - 1) : s[j] < s[i]

Front(s) == SubSeq(s, 1, Len(s) - 1)

\* the parameters the model has once epoch e (1-indexed) is trained
ParamsAfterEpoch(e) == e * NumBatches

\* the epoch after which the i-th validation pass runs
EpochOfPass(i) == ValInterval * i

\* the checkpoint of the best pass of the score history hist
BestCheckpoint(hist) ==
    StateDictFile(ParamsAfterEpoch(EpochOfPass(FirstIndexOfMax(hist))))

\* no checkpoint write is under way and none was cut short
BetweenPasses == pc \in {"epoch", "batch", "val", "done", "aborted_val"}

CheckpointFiles == {n \in DOMAIN outputs : outputs[n].kind = "state_dict"}

\* C1: between validation passes, model.pth exists exactly when a pass has
\* run, and it holds the parameters of the pass with the highest Dice so far
\* (the first such pass), not those of the latest pass; there is never more
\* than one checkpoint file.
C1_CheckpointIsBest ==
    /\ Cardinality(CheckpointFiles) <= 1
    /\ BetweenPasses =>
          IF dice_values = <<>>
             THEN ModelPath \notin DOMAIN outputs
             ELSE /\ ModelPath \in DOMAIN outputs
                  /\ outputs[ModelPath] = BestCheckpoint(dice_values)

\* C1 witness: the latest pass scored below an earlier one and the file still
\* holds the earlier pass's parameters.
C1_Witness ==
    /\ pc = "done"
    /\ Len(dice_values) >= 2
    /\ dice_values[Len(dice_values)] < MaxOf(dice_values)
    /\ outputs[ModelPath] = BestCheckpoint(dice_values)
    /\ outputs[ModelPath] # StateDictFile(params)

\* the in-memory best pair follows the maximum and its first occurrence
BestFollowsHistory ==
    IF dice_values = <<>>
       THEN best_dice_score = -1 /\ best_dice_epoch = -1
       ELSE /\ best_dice_score = MaxOf(dice_values)
            /\ best_dice_epoch = EpochOfPass(FirstIndexOfMax(dice_values))

\* C2 as stated: best_dice_score is the maximum so far and best_dice_epoch the
\* epoch of its first occurrence; after the scores 0.5, 0.7, 0.6, 0.9, 0.8 the
\* best epoch is 4 and the best score 0.9; after 0.7, 0.7 the best epoch is
\* that of the first pass.
C2_Original ==
    /\ BestFollowsHistory
    /\ dice_values = <<5, 7, 6, 9, 8>> =>
          best_dice_epoch = 4 /\ best_dice_score = 9
    /\ dice_values = <<7, 7>> => best_dice_epoch = EpochOfPass(1)

\* C2 amended: as C2, but after the scores 0.5, 0.7, 0.6, 0.9, 0.8 the best
\* is the 4th validation pass, which runs after epoch 20: best_dice_epoch is
\* 20, best_dice_score 0.9, and model.pth holds the parameters of epoch 20.
C2_BestIsFirstMaximum ==
    /\ BestFollowsHistory
    /\ dice_values = <<5, 7, 6, 9, 8>> =>
          /\ best_dice_epoch = 20
          /\ best_dice_score = 9
          /\ BetweenPasses => outputs[ModelPath] = StateDictFile(ParamsAfterEpoch(20))
    /\ dice_values = <<7, 7>> => best_dice_epoch = 5

\* C2 witness: the run of the example has ended.
C2_Witness ==
    /\ pc = "done"
    /\ dice_values = <<5, 7, 6, 9, 8>>
    /\ best_dice_epoch = 20

\* the cadences a caller might ask for
Cadences == {1, 2, 5, 10}

\* C3 as stated: whichever cadence K is configured, a validation pass runs
\* only after an epoch whose 1-indexed number is a multiple of K.
C3_Original ==
    \A K \in Cadences : pc = "val" => (epoch + 1) % K = 0

\* C3 amended: a validation pass runs after an epoch exactly when its
\* 1-indexed number is a multiple of 5 (a fixed cadence), only once all the
\* epoch's batches are consumed, and a pass yields its score only after
\* every validation sample went into the metric.
C3_CadenceIsFive ==
    /\ [](pc \in {"val", "save", "meta"} =>
             (epoch + 1) % 5 = 0 /\ step = NumBatches)
    /\ [](pc \in {"epoch", "batch", "done"} => Len(dice_values) = epoch \div 5)
    /\ [][(dice_values' # dice_values) =>
             (dice_metric = [i \in 1..NumVal |-> <<epoch + 1, i>>])]_vars

\* C3 witness: the second pass has taken all its samples, after epoch 10.
C3_Witness ==
    /\ pc = "val"
    /\ epoch + 1 = 10
    /\ Len(dice_values) = 1
    /\ Len(dice_metric) = NumVal

\* C4: a run of 5 epochs makes exactly one validation pass and one
\* checkpoint write; the first pass of any run makes its score the best and
\* goes on to write the checkpoint, whatever the score.
C4_FirstPassWrites ==
    /\ pc = "done" /\ num_epochs = 5 => Len(dice_values) = 1 /\ n_saves = 1
    /\ Len(dice_values) = 1 =>
          /\ best_dice_score = dice_values[1]
          /\ pc \in {"save", "aborted_save"} \/ n_saves = 1
          /\ n_saves = 1 => ModelPath \in DOMAIN outputs

\* C4 witness: a 5-epoch run ended with the lowest Dice and one write.
C4_Witness ==
    /\ pc = "done"
    /\ num_epochs = 5
    /\ dice_values = <<0>>
    /\ n_saves = 1
    /\ outputs[ModelPath] = StateDictFile(ParamsAfterEpoch(5))

\* what the output directory holds once the passes of hist are committed
CommittedOutputs(hist) ==
    IF hist = <<>> THEN NoFiles
    ELSE WriteFile(WriteFile(NoFiles, ModelPath, BestCheckpoint(hist)),
                   MetadataPath, MetadataFile)

\* C8 as stated: a run that fails inside a validation pass leaves the best
\* pair and the files as the completed passes made them, and a run that
\* fails while saving leaves the files of the previous best in place.
C8_FailureKeepsPreviousBest ==
    /\ pc = "aborted_val" =>
          BestFollowsHistory /\ outputs = CommittedOutputs(dice_values)
    /\ pc \in {"aborted_save", "aborted_meta"} /\ Len(dice_values) >= 2 =>
          outputs = CommittedOutputs(Front(dice_values))

\* C10: while a validation pass runs the model is in eval mode with
\* gradients off, and no step of it changes the parameters, the optimizer
\* state or the gradients; every training batch runs in training mode with
\* gradients on.
C10_ValidationLeavesModel ==
    /\ [](pc = "val" => mode = "eval" /\ ~grad_enabled)
    /\ [][(pc \in {"val", "save", "meta"}) =>
             (params' = params /\ opt_steps' = opt_steps /\ grads' = grads)]_vars
    /\ [][(params' # params \/ opt_steps' # opt_steps \/ grads' # grads) =>
             (mode = "train" /\ grad_enabled /\ pc = "batch")]_vars

\* C10 witness: a training batch has run after a validation pass.
C10_Witness ==
    /\ pc = "batch"
    /\ step >= 1
    /\ Len(dice_values) >= 1
    /\ mode = "train"
    /\ params = ParamsAfterEpoch(epoch) + step
\* the runs made so far
Runs == {split_runs[k] : k \in 1..Len(split_runs)}

ImagesOf(part) == {part[i].image : i \in 1..Len(part)}

\* C5: when both directories hold the same N names and a partition is
\* produced (by either site), its two parts have N samples together, share
\* none, cover every sample, and pair each image with the label of its own
\* name; with N = 3 and f = 0.33 one sample is held out and two train.
C5_PartitionCoversOnce ==
    \A r \in Runs :
       r.status = "ok" /\ dir_images = dir_labels =>
          /\ Len(r.train) + Len(r.heldout) = Cardinality(dir_images)
          /\ ImagesOf(r.train) \cap ImagesOf(r.heldout) = {}
          /\ ImagesOf(r.train) \cup ImagesOf(r.heldout) = dir_images
          /\ \A i \in 1..Len(r.train) : r.train[i].label = r.train[i].image
          /\ \A i \in 1..Len(r.heldout) : r.heldout[i].label = r.heldout[i].image
          /\ Cardinality(dir_images) = 3 /\ r.f = 33 =>
                Len(r.heldout) = 1 /\ Len(r.train) = 2

\* C5 witness: three pairs were split by get_data_loaders with f = 0.33 and
\* by preprocess_train_val, from listings that were not in sorted order.
C5_Witness ==
    /\ dir_images = {1, 2, 3}
    /\ dir_labels = {1, 2, 3}
    /\ Len(split_runs) = 2
    /\ split_runs[1].site = "train" /\ split_runs[1].f = 33
    /\ split_runs[1].status = "ok" /\ ~split_runs[1].listed_sorted
    /\ Len(split_runs[1].heldout) = 1 /\ Len(split_runs[1].train) = 2
    /\ split_runs[2].site = "preprocess" /\ split_runs[2].status = "ok"
    /\ Len(split_runs[2].heldout) = 1 /\ Len(split_runs[2].train) = 2

\* C6: two runs of the same site with the same held-out fraction over the
\* same directories end alike, with the same training and held-out lists in
\* the same order, however the directories were enumerated.
C6_SplitIsDeterministic ==
    \A r1, r2 \in Runs :
       r1.site = r2.site /\ r1.f = r2.f =>
          /\ r1.status = r2.status
          /\ r1.train = r2.train
          /\ r1.heldout = r2.heldout

\* C6 witness: one run saw sorted listings, the other did not, and both
\* produced the same partition.
C6_Witness ==
    /\ Len(split_runs) = 2
    /\ split_runs[1].site = split_runs[2].site
    /\ split_runs[1].f = split_runs[2].f
    /\ split_runs[1].listed_sorted /\ ~split_runs[2].listed_sorted
    /\ split_runs[1].status = "ok"
    /\ split_runs[1].train = split_runs[2].train
    /\ Len(split_runs[1].train) >= 2

\* C7 as stated: a run over directories that differ in their number of
\* files, or of which one is empty, fails and produces no partition.
C7_MismatchFails ==
    \A r \in Runs :
       \/ Cardinality(dir_images) # Cardinality(dir_labels)
       \/ dir_images = {}
       \/ dir_labels = {}
       => r.status = "error" /\ r.train = <<>> /\ r.heldout = <<>>

\* a NIfTI volume name: it ends in .nii or in .nii.gz
IsVolumeName(name) ==
    \/ EndsWithNiiGz(name)
    \/ Len(name) >= 2 /\ name[Len(name)] = ".nii"

PredCount(name) == Cardinality({i \in 1..Len(name) : name[i] = "_pred"})

\* C9 as stated: for every volume file name the derived name holds the
\* postfix _pred once, ends in .nii.gz, is the name the prediction was saved
\* under, and the load of it succeeds; case_01.nii.gz gives
\* case_01_pred.nii.gz.
C9_DerivedNameIsSavedName ==
    IsVolumeName(input_name) =>
       /\ ipc \in {"named", "done", "failed"} =>
             /\ PredCount(pred_name) = 1
             /\ EndsWithNiiGz(pred_name)
             /\ pred_name \in pred_dir
       /\ ipc # "failed"
       /\ input_name = <<"case_01", ".nii", ".gz">> /\ ipc = "done" =>
             pred_name = <<"case_01", "_pred", ".nii", ".gz">> /\ loaded = "ok"
\* the best score before the latest validation pass
PreviousBest ==
    IF Len(dice_values) <= 1 THEN best_dice_score_init
    ELSE MaxOf(Front(dice_values))

\* the latest validation pass scored strictly above the previous best
LatestIsNewBest ==
    /\ dice_values # <<>>
    /\ dice_values[Len(dice_values)] > PreviousBest

\* C11: the sidecar exists only if model.pth exists; when the sidecar is
\* about to be written, model.pth already holds the parameters of the same
\* pass; a sidecar appears only by that write; and the output files change
\* only in the save steps of a pass whose Dice is strictly above the
\* previous best.
C11_SidecarAfterModel ==
    /\ [](MetadataPath \in DOMAIN outputs => ModelPath \in DOMAIN outputs)
    /\ [](pc = "meta" =>
             /\ ModelPath \in DOMAIN outputs
             /\ outputs[ModelPath] = StateDictFile(params)
             /\ params = ParamsAfterEpoch(best_dice_epoch))
    /\ [][(MetadataPath \in DOMAIN outputs' /\ MetadataPath \notin DOMAIN outputs)
             => (pc = "meta")]_vars
    /\ [][(outputs' # outputs) =>
             (pc \in {"save", "meta"} /\ LatestIsNewBest)]_vars

\* C11 witness: two passes were saved with their sidecar and a third, not
\* a new best, wrote nothing.
C11_Witness ==
    /\ pc = "epoch"
    /\ Len(dice_values) = 3
    /\ n_saves = 2
    /\ ~LatestIsNewBest
    /\ outputs[MetadataPath] = MetadataFile
    /\ outputs[ModelPath] = StateDictFile(ParamsAfterEpoch(10))
\* the buffer a metric holds once the first n samples of the pass after
\* epoch e (1-indexed) are scored
SamplesOfPass(e, n) == [i \in 1..n |-> <<e, i>>]

\* C12: outside a validation pass both metric buffers are empty; inside one
\* they hold exactly the samples of that pass scored so far, so they are
\* empty when the pass starts; and a score is aggregated from the samples of
\* its own pass alone, all of them.
C12_MetricsHoldOnlyThisPass ==
    /\ [](pc \in {"val", "aborted_val"} =>
             /\ dice_metric = SamplesOfPass(epoch + 1, val_i)
             /\ mean_iou_metric = SamplesOfPass(epoch + 1, val_i))
    /\ [](pc \notin {"val", "aborted_val"} =>
             dice_metric = <<>> /\ mean_iou_metric = <<>>)
    /\ [][(dice_values' # dice_values) =>
             /\ dice_metric = SamplesOfPass(epoch + 1, NumVal)
             /\ mean_iou_metric = SamplesOfPass(epoch + 1, NumVal)
             /\ dice_metric' = <<>>
             /\ mean_iou_metric' = <<>>]_vars

\* C12 witness: the second validation pass has scored its first sample and
\* the buffers hold that sample alone.
C12_Witness ==
    /\ pc = "val"
    /\ Len(dice_values) = 1
    /\ val_i = 1
    /\ dice_metric = <<<<10, 1>>>>
    /\ mean_iou_metric = <<<<10, 1>>>>
====
